---- MODULE Spec2Model ----
(***************************************************************************)
(* cclint: the stream that intercepts and formats cpplint's output         *)
(* (cclint/file_stream.py) and the part of the command-line entry point    *)
(* that drives it and selects the exit status, and the filter of the       *)
(* filename arguments in parse_arguments (cclint/command.py).              *)
(*                                                                         *)
(* A text line is a sequence of tokens.  The three literals the code       *)
(* matches with startswith ("Done", "Skipping input", "Ignoring") are      *)
(* single tokens that occur only at the head of a line; every other token  *)
(* is one character.  " " stands for any whitespace character.             *)
(***************************************************************************)
EXTENDS Integers, Sequences, FiniteSets, TLC

\* ---- bounds of the model ----
MaxFiles == 3
MaxLinesPerFile == 3
MaxRestLen == 2
MaxArgs == 2
\* the specification of long lines: fewer files and lines, longer lines
MaxLongFiles == 1
MaxLongLines == 2
MaxLongRestLen == 4

\* ---- program constants ----
_FILE_STREAM_INITIAL_LINE_INDENT == 6

_SYS_STDERR == "_SYS_STDERR"

STREAM == "FileStream"

_WARNING_PATTERNS == << <<"Skipping input", ":">>, <<"Ignoring", ";">> >>

DONE_MARKER == "Done"

GLYPH_OK == "ok"

GLYPH_WARNING == "warning"

GLYPH_ERROR == "error"

UNSET == "unset"

\* ---- the text the engine can write ----
Chars == {":", ";", " ", "A"}

Filenames == {"", "a.cc"}

RECURSIVE SeqsUpTo(_, _)
SeqsUpTo(S, n) ==
    IF n = 0 THEN {<<>>}
    ELSE LET shorter == SeqsUpTo(S, n - 1)
         IN  shorter \cup {Append(s, c) : s \in {t \in shorter : Len(t) = n - 1}, c \in S}

Heads == {<<>>, <<DONE_MARKER>>} \cup {<<_WARNING_PATTERNS[i][1]>> : i \in 1..Len(_WARNING_PATTERNS)}

EngineLines == {h \o r : h \in Heads, r \in SeqsUpTo(Chars, MaxRestLen)}

\* the lines that end a file
DoneLines == {<<DONE_MARKER>> \o r : r \in SeqsUpTo(Chars, MaxRestLen)}

LongLines ==
    DoneLines \cup
    {h \o r : h \in Heads \ {<<DONE_MARKER>>}, r \in SeqsUpTo(Chars, MaxLongRestLen)}

\* ---- str methods used by write ----
startswith(data, literal) == Len(data) > 0 /\ data[1] = literal

\* index of the first occurrence of sep in s, 0 when there is none
find(s, sep) ==
    IF \E i \in 1..Len(s) : s[i] = sep
    THEN CHOOSE i \in 1..Len(s) : s[i] = sep /\ \A j \in 1..(i - 1) : s[j] # sep
    ELSE 0

\* str.split(sep, maxsplit): the list of parts
RECURSIVE split(_, _, _)
split(s, sep, maxsplit) ==
    LET i == find(s, sep)
    IN  IF maxsplit = 0 \/ i = 0 THEN <<s>>
        ELSE <<SubSeq(s, 1, i - 1)>> \o split(SubSeq(s, i + 1, Len(s)), sep, maxsplit - 1)

IsSpace(c) == c = " "

RECURSIVE lstrip(_)
lstrip(s) == IF Len(s) > 0 /\ IsSpace(s[1]) THEN lstrip(Tail(s)) ELSE s

RECURSIVE rstrip(_)
rstrip(s) == IF Len(s) > 0 /\ IsSpace(s[Len(s)]) THEN rstrip(SubSeq(s, 1, Len(s) - 1)) ELSE s

strip(s) == rstrip(lstrip(s))

lower(c) == IF c = "A" THEN "a" ELSE c

\* ---- what print() emits ----
BlankLine == [kind |-> "blank", glyph |-> "", indent |-> 0, name |-> "", head |-> <<>>, text |-> <<>>]

HeaderLine(line_indent, state, name) ==
    [kind |-> "header", glyph |-> state, indent |-> line_indent, name |-> name,
     head |-> <<>>, text |-> <<>>]

MessageLine(line_indent, message) ==
    [kind |-> "message", glyph |-> "", indent |-> line_indent, name |-> "",
     head |-> <<>>, text |-> message]

DetailLine(line_indent, line_number, description) ==
    [kind |-> "detail", glyph |-> "", indent |-> line_indent, name |-> "",
     head |-> line_number, text |-> description]

VARIABLES
    previous_file_has_error,  \* FileStream.previous_file_has_error
    processed_files,          \* FileStream.processed_files
    total_error_counts,       \* FileStream.total_error_counts
    filename,                 \* FileStream.filename
    error_counts,             \* FileStream.error_counts
    sys_stderr,               \* the process-wide sys.stderr
    pc,                       \* position of execute_from_command_line
    exit_code,                \* the status the process ended with
    files_begun,              \* number of files begun in this run
    lines_fed,                \* number of lines cpplint wrote for the current file
    out,                      \* every line printed so far, in order, without its text
    printed,                  \* the lines printed by the last call, with their text
    call,                     \* the last call: its name, argument and outcome
    pre,                      \* the stream's fields when the last call began
    file_start,               \* Len(out) when the current file began
    fed_errors,               \* error lines written for the current file
    fed_errors_total,         \* error lines written in the whole run
    finalized_errors,         \* sum of error_counts of the files already left
    completed_files,          \* files whose completion line was written
    argv,                     \* parse_arguments: what cpplint.ParseArguments returned
    excludedirs,              \* parse_arguments: options['excludedirs']
    filenames,                \* parse_arguments: the list it builds
    next_arg,                 \* parse_arguments: index of the argument the loop is at
    parse_pc,                 \* parse_arguments: "loop" or "returned"
    long_lines                \* TRUE in the runs of one file with long lines

stream_vars == <<previous_file_has_error, processed_files, total_error_counts, filename,
          error_counts, sys_stderr, pc, exit_code, files_begun, lines_fed, out,
          printed, call, pre, file_start, fed_errors, fed_errors_total, finalized_errors,
          completed_files, long_lines>>

arg_vars == <<argv, excludedirs, filenames, next_arg, parse_pc>>

vars == <<stream_vars, arg_vars>>

\* mutant: only the first pattern of the table is tried
MatchedPattern_FirstOnly(data) ==
    IF startswith(data, _WARNING_PATTERNS[1][1]) THEN 1 ELSE 0

\* ---- classification of a line, by the order of the tests in write ----

MatchedPattern(data) ==
    IF \E i \in 1..Len(_WARNING_PATTERNS) : startswith(data, _WARNING_PATTERNS[i][1])
    THEN CHOOSE i \in 1..Len(_WARNING_PATTERNS) :
            /\ startswith(data, _WARNING_PATTERNS[i][1])
            /\ \A j \in 1..(i - 1) : ~startswith(data, _WARNING_PATTERNS[j][1])
    ELSE 0

Classify(data) ==
    IF startswith(data, DONE_MARKER) THEN "completion"
    ELSE IF MatchedPattern(data) # 0 THEN "warning"
    ELSE "error"

\* an entry of out: the kind of line, and for a header what the stream's
\* state was when PrintFilename was entered
Trace(line, first, after_error) ==
    [kind |-> line.kind, glyph |-> line.glyph, first |-> first, after_error |-> after_error]

Traces(lines, first, after_error) ==
    [i \in 1..Len(lines) |-> Trace(lines[i], first, after_error)]

\* mutant: write does not restore sys.stderr on entry
StderrInWrite_Kept == sys_stderr

\* sys.stderr while write handles a line
StderrInWrite == _SYS_STDERR

\* a call: its name, its argument, whether it raised, and what sys.stderr was
\* while its body ran
Call(op, data, raised) ==
    [op |-> op, data |-> data, raised |-> raised,
     stderr |-> IF op = "write" THEN StderrInWrite ELSE sys_stderr]

Snapshot ==
    [previous_file_has_error |-> previous_file_has_error,
     processed_files |-> processed_files,
     total_error_counts |-> total_error_counts,
     error_counts |-> error_counts,
     sys_stderr |-> sys_stderr]

\* ---- FileStream.Init: the state of a fresh run ----
StreamInit ==
    /\ previous_file_has_error = FALSE
    /\ processed_files = 0
    /\ total_error_counts = 0
    /\ filename = UNSET
    /\ error_counts = 0     \* no attribute yet: PrepareForProcessingFile sets it before any read
    /\ sys_stderr = _SYS_STDERR
    /\ pc = "ready"
    /\ exit_code = -1
    /\ files_begun = 0
    /\ lines_fed = 0
    /\ out = <<>>
    /\ printed = <<>>
    /\ call = Call("Init", <<>>, FALSE)
    /\ pre = Snapshot
    /\ file_start = 0
    /\ fed_errors = 0
    /\ fed_errors_total = 0
    /\ finalized_errors = 0
    /\ completed_files = 0

\* the run starts once parse_arguments has returned
Returned ==
    /\ argv = <<>>
    /\ excludedirs = {}
    /\ filenames = <<>>
    /\ next_arg = 1
    /\ parse_pc = "returned"

Init ==
    /\ StreamInit
    /\ long_lines = FALSE
    /\ Returned

\* ---- print(): the lines reach the screen; out keeps their kinds ----
Emit(lines) ==
    /\ printed' = lines
    /\ out' = out \o Traces(lines, processed_files = 0, previous_file_has_error)

\* ---- FileStream.PrintFilename ----
\* mutant: every glyph but the clean one counts as an error
current_file_has_error_NotOk(state) == state # GLYPH_OK

current_file_has_error(state) == state = GLYPH_ERROR

LeadingBlank(state) ==
    processed_files = 0 \/ (previous_file_has_error /\ ~current_file_has_error(state))

\* the lines PrintFilename prints; message = <<>> stands for None and for ''
PrintFilenameLines(line_indent, state, message) ==
    (IF LeadingBlank(state) THEN <<BlankLine>> ELSE <<>>)
    \o <<HeaderLine(line_indent, state, filename)>>
    \o (IF message # <<>> THEN <<MessageLine(line_indent, message)>> ELSE <<>>)

\* mutant: previous_file_has_error is never cleared
PrintFilenameState_Sticky(state) ==
    /\ processed_files' = processed_files + 1
    /\ previous_file_has_error' = (previous_file_has_error \/ current_file_has_error(state))

\* the assignments that end PrintFilename
PrintFilenameState(state) ==
    /\ processed_files' = processed_files + 1
    /\ previous_file_has_error' = current_file_has_error(state)

\* ---- FileStream.PrepareForProcessingFile ----
FileBound == IF long_lines THEN MaxLongFiles ELSE MaxFiles

LineBound == IF long_lines THEN MaxLongLines ELSE MaxLinesPerFile

\* what cpplint can write next
Writable ==
    IF lines_fed >= LineBound THEN DoneLines
    ELSE IF long_lines THEN LongLines ELSE EngineLines

PrepareForProcessingFile(f) ==
    /\ pc = "ready"
    /\ files_begun < FileBound
    /\ filename' = f
    /\ error_counts' = 0
    /\ sys_stderr' = IF f # "" THEN STREAM ELSE sys_stderr
    /\ pc' = "processing"
    /\ files_begun' = files_begun + 1
    /\ lines_fed' = 0
    /\ printed' = <<>>
    /\ call' = Call("PrepareForProcessingFile", <<>>, FALSE)
    /\ pre' = Snapshot
    /\ file_start' = Len(out)
    /\ fed_errors' = 0
    /\ finalized_errors' = finalized_errors + error_counts
    /\ UNCHANGED <<previous_file_has_error, processed_files, total_error_counts,
                   exit_code, out, fed_errors_total, completed_files>>
    /\ UNCHANGED <<arg_vars, long_lines>>

\* ---- FileStream.write ----
\* an exception leaves write, reaches the top level and ends the process
Raise ==
    /\ sys_stderr' = StderrInWrite
    /\ pc' = "aborted"
    /\ exit_code' = 1

\* mutant: write returns without redirecting sys.stderr again
Return_NoRedirect(next_pc) ==
    /\ sys_stderr' = StderrInWrite
    /\ pc' = next_pc
    /\ UNCHANGED exit_code

\* Reindirects the output stream to this instance, and returns
Return(next_pc) ==
    /\ sys_stderr' = STREAM
    /\ pc' = next_pc
    /\ UNCHANGED exit_code

\* mutant: the run's total is tested instead of the file's count
NoErrorsInFile_Total == total_error_counts = 0

\* mutant: the clean header is printed for every completion line
NoErrorsInFile_Always == TRUE

\* the file has no error when its completion line arrives
NoErrorsInFile == error_counts = 0

WriteDone(data) ==
    /\ startswith(data, DONE_MARKER)
    /\ IF NoErrorsInFile
       THEN /\ Emit(PrintFilenameLines(_FILE_STREAM_INITIAL_LINE_INDENT, GLYPH_OK, <<>>))
            /\ PrintFilenameState(GLYPH_OK)
       ELSE /\ Emit(<<>>)
            /\ UNCHANGED <<processed_files, previous_file_has_error>>
    /\ Return("file_done")
    /\ call' = Call("write", data, FALSE)
    /\ completed_files' = completed_files + 1
    /\ UNCHANGED <<error_counts, total_error_counts, fed_errors, fed_errors_total>>

WarningParts(data) == split(data, _WARNING_PATTERNS[MatchedPattern(data)][2], 1)

\* [1] of a one-element list, or [0] of an empty string: IndexError
WarningRaises(data) ==
    \/ Len(WarningParts(data)) < 2
    \/ strip(WarningParts(data)[2]) = <<>>

\* mutant: the whole message is lower-cased
WarningMessage_LowerAll(data) ==
    LET message == strip(WarningParts(data)[2])
    IN  [i \in 1..Len(message) |-> lower(message[i])]

WarningMessage(data) ==
    LET message == strip(WarningParts(data)[2])
    IN  <<lower(message[1])>> \o Tail(message)

WriteWarning(data) ==
    /\ ~startswith(data, DONE_MARKER)
    /\ MatchedPattern(data) # 0
    /\ IF WarningRaises(data)
       THEN /\ Emit(<<>>)
            /\ UNCHANGED <<processed_files, previous_file_has_error>>
            /\ Raise
       ELSE /\ Emit(PrintFilenameLines(_FILE_STREAM_INITIAL_LINE_INDENT, GLYPH_WARNING,
                                       WarningMessage(data)))
            /\ PrintFilenameState(GLYPH_WARNING)
            /\ Return("processing")
    /\ call' = Call("write", data, WarningRaises(data))
    /\ UNCHANGED <<error_counts, total_error_counts, fed_errors, fed_errors_total,
                   completed_files>>

\* mutant: the line is split once only
ErrorParts_OneSplit(data) == split(data, ":", 1)

ErrorParts(data) == split(data, ":", 2)

\* unpacking fewer than three parts into three names: ValueError
ErrorRaises(data) == Len(ErrorParts(data)) # 3

\* mutant: write prints no blank line of its own
BlankBeforeErrorHeader_Never == <<>>

\* mutant: write prints its blank line before every error header
BlankBeforeErrorHeader_Always == <<BlankLine>>

BlankBeforeErrorHeader == IF processed_files > 0 THEN <<BlankLine>> ELSE <<>>

\* mutant: the description is printed as it was split off
ErrorDetail_Untrimmed(data) ==
    DetailLine(_FILE_STREAM_INITIAL_LINE_INDENT + 2, ErrorParts(data)[2],
               ErrorParts(data)[3])

ErrorDetail(data) ==
    DetailLine(_FILE_STREAM_INITIAL_LINE_INDENT + 2, ErrorParts(data)[2],
               strip(ErrorParts(data)[3]))

\* mutant: the total is assigned from the file's count
IncrementErrorCounts_FromFile ==
    /\ error_counts' = error_counts + 1
    /\ total_error_counts' = error_counts + 1

\* Found an error. Increments the `error_counts`.
IncrementErrorCounts ==
    /\ error_counts' = error_counts + 1
    /\ total_error_counts' = total_error_counts + 1

\* mutant: the header is printed for every error
IsFirstError_Every == error_counts' >= 1

\* the test made after the increment: this is the file's first error
IsFirstError == error_counts' = 1

\* mutant: the line is split before anything is counted or printed
WriteError_SplitFirst(data) ==
    /\ ~startswith(data, DONE_MARKER)
    /\ MatchedPattern(data) = 0
    /\ IF ErrorRaises(data)
       THEN /\ Emit(<<>>)
            /\ UNCHANGED <<error_counts, total_error_counts, processed_files,
                           previous_file_has_error>>
            /\ Raise
       ELSE /\ IncrementErrorCounts
            /\ Emit((IF IsFirstError
                     THEN BlankBeforeErrorHeader \o
                          PrintFilenameLines(_FILE_STREAM_INITIAL_LINE_INDENT,
                                             GLYPH_ERROR, <<>>)
                     ELSE <<>>) \o <<ErrorDetail(data)>>)
            /\ IF IsFirstError
               THEN PrintFilenameState(GLYPH_ERROR)
               ELSE UNCHANGED <<processed_files, previous_file_has_error>>
            /\ Return("processing")
    /\ call' = Call("write", data, ErrorRaises(data))
    /\ fed_errors' = fed_errors + 1
    /\ fed_errors_total' = fed_errors_total + 1
    /\ UNCHANGED completed_files

WriteError(data) ==
    /\ ~startswith(data, DONE_MARKER)
    /\ MatchedPattern(data) = 0
    /\ IncrementErrorCounts
    /\ LET header == IF IsFirstError
                     THEN BlankBeforeErrorHeader \o
                          PrintFilenameLines(_FILE_STREAM_INITIAL_LINE_INDENT,
                                             GLYPH_ERROR, <<>>)
                     ELSE <<>>
           detail == IF ErrorRaises(data) THEN <<>> ELSE <<ErrorDetail(data)>>
       IN  Emit(header \o detail)
    /\ IF IsFirstError
       THEN PrintFilenameState(GLYPH_ERROR)
       ELSE UNCHANGED <<processed_files, previous_file_has_error>>
    /\ IF ErrorRaises(data) THEN Raise ELSE Return("processing")
    /\ call' = Call("write", data, ErrorRaises(data))
    /\ fed_errors' = fed_errors + 1
    /\ fed_errors_total' = fed_errors_total + 1
    /\ UNCHANGED completed_files

\* cpplint writes one line to sys.stderr while sys.stderr is the stream
write(data) ==
    /\ pc = "processing"
    /\ sys_stderr = STREAM
    /\ Classify(data) # "completion" => lines_fed < LineBound
    /\ lines_fed' = lines_fed + 1
    /\ pre' = Snapshot
    /\ \/ WriteDone(data)
       \/ WriteWarning(data)
       \/ WriteError(data)
    /\ UNCHANGED <<filename, files_begun, file_start, finalized_errors>>
    /\ UNCHANGED <<arg_vars, long_lines>>

\* ---- execute_from_command_line ----
\* cpplint.ProcessFile while sys.stderr is not the stream: its lines go to the
\* original channel and write is not called
ProcessFileUnintercepted ==
    /\ pc = "processing"
    /\ sys_stderr # STREAM
    /\ pc' = "file_done"
    /\ printed' = <<>>
    /\ call' = Call("ProcessFile", <<>>, FALSE)
    /\ pre' = Snapshot
    /\ UNCHANGED <<previous_file_has_error, processed_files, total_error_counts, filename,
                   error_counts, sys_stderr, exit_code, files_begun, lines_fed, out,
                   file_start, fed_errors, fed_errors_total, finalized_errors,
                   completed_files>>
    /\ UNCHANGED <<arg_vars, long_lines>>

\* stream.end(), called once ProcessFile has returned.  The one effect stated
\* for it is the once-per-file increment of the processed-file count, which
\* this stream makes in PrintFilename; end itself assigns no field of the
\* stream and leaves sys.stderr alone.
end ==
    /\ pc = "file_done"
    /\ pc' = "ready"
    /\ printed' = <<>>
    /\ call' = Call("end", <<>>, FALSE)
    /\ pre' = Snapshot
    /\ UNCHANGED <<previous_file_has_error, processed_files, total_error_counts,
                   filename, error_counts,
                   sys_stderr, exit_code, files_begun, lines_fed, out, file_start,
                   fed_errors, fed_errors_total, finalized_errors, completed_files>>
    /\ UNCHANGED <<arg_vars, long_lines>>

\* mutant: the status is inverted
sys_exit_Inverted(arg) == IF arg THEN 0 ELSE 1

\* the status sys.exit(arg) ends the process with, for a bool arg
sys_exit(arg) == IF arg THEN 1 ELSE 0

Exit ==
    /\ pc = "ready"
    /\ pc' = "exited"
    /\ exit_code' = sys_exit(total_error_counts > 0)
    /\ printed' = <<>>
    /\ call' = Call("sys.exit", <<>>, FALSE)
    /\ pre' = Snapshot
    /\ UNCHANGED <<previous_file_has_error, processed_files, total_error_counts, filename,
                   error_counts, sys_stderr, files_begun, lines_fed, out,
                   file_start, fed_errors, fed_errors_total, finalized_errors,
                   completed_files>>
    /\ UNCHANGED <<arg_vars, long_lines>>

Next ==
    \/ \E f \in Filenames : PrepareForProcessingFile(f)
    \/ \E data \in Writable : write(data)
    \/ ProcessFileUnintercepted
    \/ end
    \/ Exit

Spec == Init /\ [][Next]_vars

\* the runs of one file whose lines are long enough to hold a separator, white
\* space around the text and a second character
InitLong ==
    /\ StreamInit
    /\ long_lines = TRUE
    /\ Returned

SpecLong == InitLong /\ [][Next]_vars

\* ---- parse_arguments: the filter of the filenames ----
\* A path is the sequence of its components; "." is the current directory.
\* The working directory holds these directories and files.
Directories == {<<"ex">>, <<"ex", "sub">>, <<"src">>}

Files == {<<"ex", "a.cc">>, <<"ex", "sub", "b.cc">>, <<"src", "c.cc">>, <<"d.cc">>}

MissingPaths == {<<"zz.cc">>}

\* the spellings of a path an argument can have
Spellings(p) == {p, <<".">> \o p}

ArgPaths == UNION {Spellings(p) : p \in Directories \cup Files \cup MissingPaths}

\* os.path.relpath(path), for a relative path below the working directory
relpath(path) ==
    LET kept == SelectSeq(path, LAMBDA c : c # ".")
    IN  IF kept = <<>> THEN <<".">> ELSE kept

\* os.path.dirname(path): the text before the last separator
dirname(path) == SubSeq(path, 1, Len(path) - 1)

isdir(path) == relpath(path) \in Directories

isfile(path) == relpath(path) \in Files

\* the test of the loop: the argument is skipped
Skipped(path) ==
    \/ isdir(path) /\ relpath(path) \in excludedirs
    \/ isfile(path) /\ dirname(path) \in excludedirs

\* one turn of the loop over cpplint.ParseArguments(cpplint_args)
FilterArgument ==
    /\ parse_pc = "loop"
    /\ next_arg <= Len(argv)
    /\ filenames' = IF Skipped(argv[next_arg]) THEN filenames
                    ELSE Append(filenames, argv[next_arg])
    /\ next_arg' = next_arg + 1
    /\ UNCHANGED <<argv, excludedirs, parse_pc>>
    /\ UNCHANGED stream_vars

ReturnFilenames ==
    /\ parse_pc = "loop"
    /\ next_arg > Len(argv)
    /\ parse_pc' = "returned"
    /\ UNCHANGED <<argv, excludedirs, filenames, next_arg>>
    /\ UNCHANGED stream_vars

\* parse_cclint_arguments adds os.path.relpath(dirname) of every directory a
\* --excludedir pattern matches
InitArgs ==
    /\ StreamInit
    /\ argv \in SeqsUpTo(ArgPaths, MaxArgs)
    /\ excludedirs \in SUBSET Directories
    /\ filenames = <<>>
    /\ next_arg = 1
    /\ parse_pc = "loop"
    /\ long_lines = FALSE

NextArgs == FilterArgument \/ ReturnFilenames

SpecArgs == InitArgs /\ [][NextArgs]_vars

\* ======================= properties =======================
\* ---- vocabulary of the properties ----
IsCompletionLine(data) == Len(data) > 0 /\ data[1] = "Done"

IsWarningLine(data) == Len(data) > 0 /\ data[1] \in {"Skipping input", "Ignoring"}

IsErrorLine(data) == ~IsCompletionLine(data) /\ ~IsWarningLine(data)

Colons(data) == Cardinality({i \in 1..Len(data) : data[i] = ":"})

Wrote(data_kind) == call.op = "write" /\ data_kind

\* the lines printed since the current file began
FileOut == SubSeq(out, file_start + 1, Len(out))

Headers(seq, glyph) == {i \in 1..Len(seq) : seq[i].kind = "header" /\ seq[i].glyph = glyph}

Lines(seq, kind) == {i \in 1..Len(seq) : seq[i].kind = kind}

\* the glyphs of the headers of seq, in order
RECURSIVE Glyphs(_)
Glyphs(seq) ==
    IF seq = <<>> THEN <<>>
    ELSE (IF Head(seq).kind = "header" THEN <<Head(seq).glyph>> ELSE <<>>) \o Glyphs(Tail(seq))

\* C1: in every state of every run total_error_counts is the number of error
\* lines written so far in the whole run, and also the sum of the error_counts
\* reached by the files already left plus that of the current file; no call
\* leaves it lower than it found it.
C1_TotalErrorCounts ==
    /\ total_error_counts = fed_errors_total
    /\ total_error_counts = finalized_errors + error_counts
    /\ total_error_counts >= pre.total_error_counts

C1_Witness ==
    /\ pc = "exited"
    /\ files_begun = MaxFiles
    /\ finalized_errors >= 2
    /\ error_counts >= 1
    /\ total_error_counts = finalized_errors + error_counts

\* C2: while a file is processed and once it is done, if N >= 1 error lines
\* were written for it (none of them malformed), the output of that file holds
\* exactly one error header and exactly N detail lines, the header comes before
\* every detail line, and it is the write of the first error line that prints
\* the header, followed by that line's detail.
C2_OneErrorHeader ==
    (pc \in {"processing", "file_done"} /\ fed_errors >= 1) =>
        /\ Cardinality(Headers(FileOut, GLYPH_ERROR)) = 1
        /\ Cardinality(Lines(FileOut, "detail")) = fed_errors
        /\ \A h \in Headers(FileOut, GLYPH_ERROR) : \A d \in Lines(FileOut, "detail") : h < d
        /\ Wrote(IsErrorLine(call.data)) =>
              /\ (fed_errors = 1) = (Headers(printed, GLYPH_ERROR) # {})
              /\ Len(printed) > 0 /\ printed[Len(printed)].kind = "detail"
              /\ fed_errors = 1 => printed[Len(printed) - 1].kind = "header"

C2_Witness ==
    /\ pc = "file_done"
    /\ fed_errors = 2
    /\ Cardinality(Lines(FileOut, "detail")) = 2
    /\ Headers(FileOut, GLYPH_WARNING) # {}
    /\ file_start > 0

\* C3: when the completion line of a file with no error line has been written,
\* the output of that file holds exactly one clean header and
\* previous_file_has_error is false.
C3_CleanHeader ==
    (pc = "file_done" /\ Wrote(IsCompletionLine(call.data)) /\ fed_errors = 0) =>
        /\ Cardinality(Headers(FileOut, GLYPH_OK)) = 1
        /\ Headers(printed, GLYPH_OK) # {}
        /\ previous_file_has_error = FALSE

C3_Witness ==
    /\ pc = "file_done"
    /\ Wrote(IsCompletionLine(call.data))
    /\ fed_errors = 0
    /\ out[Len(out)].after_error
    /\ Cardinality(Headers(FileOut, GLYPH_OK)) = 1

\* ---- header spacing ----
BlankBefore(i) == i > 1 /\ out[i - 1].kind = "blank"

\* C4 as stated: a blank line is printed immediately before a header exactly
\* when processed_files = 0, or previous_file_has_error holds and the header
\* is not an error header.
C4_SpacingAsStated ==
    \A i \in 1..Len(out) :
        out[i].kind = "header" =>
            (BlankBefore(i) <=>
                (out[i].first \/ (out[i].after_error /\ out[i].glyph # GLYPH_ERROR)))

\* C4, amended: a blank line is printed immediately before a header exactly
\* when processed_files = 0, or the header is an error header, or
\* previous_file_has_error holds; so in the sequence of an error file, an
\* error file and a clean file a blank line precedes each of the three headers.
C4_Spacing ==
    \A i \in 1..Len(out) :
        out[i].kind = "header" =>
            (BlankBefore(i) <=>
                (out[i].first \/ out[i].glyph = GLYPH_ERROR \/ out[i].after_error))

C4_Witness ==
    /\ pc = "file_done"
    /\ Glyphs(out) = <<GLYPH_ERROR, GLYPH_ERROR, GLYPH_OK>>
    /\ Cardinality(Lines(out, "blank")) = 3
    /\ Cardinality(Lines(out, "detail")) >= 2

\* C5: once the run has reached sys.exit, the exit status is 0 exactly when
\* total_error_counts is 0.
C5_ExitCode == pc = "exited" => (exit_code = 0 <=> total_error_counts = 0)

C5_Witness == pc = "exited" /\ total_error_counts > 0 /\ exit_code # 0 /\ files_begun > 1

\* C6: a write of a line that is neither a warning nor the completion line
\* raises exactly when the line holds fewer than two colons; when it raises no
\* detail line is printed, otherwise one is.
C6_MalformedError ==
    Wrote(IsErrorLine(call.data)) =>
        /\ call.raised <=> Colons(call.data) < 2
        /\ call.raised <=> pc = "aborted"
        /\ call.raised <=> Lines(printed, "detail") = {}

C6_Witness ==
    /\ Wrote(IsErrorLine(call.data))
    /\ Colons(call.data) = 1
    /\ call.raised
    /\ pc = "aborted"

\* C7: whenever write has raised, sys.stderr is the original channel.
C7_StderrOnFailure == pc = "aborted" => sys_stderr = _SYS_STDERR /\ sys_stderr # STREAM

C7_Witness == pc = "aborted" /\ Wrote(IsErrorLine(call.data)) /\ error_counts = 2

\* C8 as stated: a write of a line that begins with a warning prefix or with
\* the completion marker never raises.
C8_WarningNeverRaises ==
    Wrote(IsWarningLine(call.data) \/ IsCompletionLine(call.data)) => ~call.raised

\* C9: a write of a warning line leaves error_counts and total_error_counts
\* as they were.
C9_WarningKeepsCounts ==
    Wrote(IsWarningLine(call.data)) =>
        /\ error_counts = pre.error_counts
        /\ total_error_counts = pre.total_error_counts

C9_Witness ==
    /\ Wrote(IsWarningLine(call.data))
    /\ ~call.raised
    /\ Headers(printed, GLYPH_WARNING) # {}
    /\ error_counts > 0
    /\ total_error_counts > error_counts

\* C10 as stated: a write of a warning line leaves previous_file_has_error as
\* it was.
C10_WarningKeepsPreviousAsStated ==
    Wrote(IsWarningLine(call.data)) =>
        previous_file_has_error = pre.previous_file_has_error

\* C10, amended: a write of a warning line that prints its header sets
\* previous_file_has_error to false, also when it was true; one that raises
\* leaves it as it was.
C10_WarningClearsPrevious ==
    Wrote(IsWarningLine(call.data)) =>
        previous_file_has_error =
            (IF call.raised THEN pre.previous_file_has_error ELSE FALSE)

C10_Witness ==
    /\ Wrote(IsWarningLine(call.data))
    /\ ~call.raised
    /\ pre.previous_file_has_error
    /\ previous_file_has_error = FALSE

\* C11 as stated: once every file begun so far has been fed its completion
\* line and has ended, processed_files is the number of files.
C11_ProcessedFilesCountsFiles ==
    (pc \in {"ready", "exited"} /\ completed_files = files_begun) =>
        processed_files = files_begun

IsPrefix(d, p) == Len(d) <= Len(p) /\ SubSeq(p, 1, Len(d)) = d

\* the argument is, or lies at any depth beneath, an excluded directory
InsideExcluded(path) ==
    \E d \in excludedirs :
        /\ IsPrefix(d, relpath(path))
        /\ isfile(path) => d # relpath(path)

\* C13 as stated: the list parse_arguments returns holds, in their order, the
\* arguments that lie in no excluded directory, and no other.
C13_ExcludedArgumentsDropped ==
    parse_pc = "returned" =>
        filenames = SelectSeq(argv, LAMBDA p : ~InsideExcluded(p))

\* ---- the text of a message and of a detail line ----
\* the places of character c in s, and the k-th of them
Places(s, c) == {i \in 1..Len(s) : s[i] = c}

Place(s, c, k) ==
    CHOOSE i \in Places(s, c) : Cardinality({j \in Places(s, c) : j < i}) = k - 1

Between(s, from, to) == SubSeq(s, from + 1, to - 1)

\* s without the white space around it
Trimmed(s) ==
    LET inked == {i \in 1..Len(s) : s[i] # " "}
    IN  IF inked = {} THEN <<>>
        ELSE Between(s, (CHOOSE i \in inked : \A j \in inked : i <= j) - 1,
                        (CHOOSE i \in inked : \A j \in inked : i >= j) + 1)

LowerFirst(s) == [i \in 1..Len(s) |-> IF i = 1 /\ s[i] = "A" THEN "a" ELSE s[i]]

SeparatorOf(data) == IF data[1] = "Skipping input" THEN ":" ELSE ";"

LastPrinted == printed[Len(printed)]

\* C14: a write of a warning line that returns prints one warning header and
\* under it one message; the message is the text after the first separator of
\* the line's prefix (':' for "Skipping input", ';' for "Ignoring"), without
\* the white space around it and with its first character, and no other,
\* lower-cased; the write records no error.
C14_WarningMessage ==
    (Wrote(IsWarningLine(call.data)) /\ ~call.raised) =>
        /\ Cardinality(Headers(printed, GLYPH_WARNING)) = 1
        /\ Cardinality(Lines(printed, "header")) = 1
        /\ Cardinality(Lines(printed, "message")) = 1
        /\ Len(printed) >= 2
        /\ printed[Len(printed) - 1].kind = "header"
        /\ LastPrinted.kind = "message"
        /\ LastPrinted.text =
              LowerFirst(Trimmed(Between(call.data,
                                         Place(call.data, SeparatorOf(call.data), 1),
                                         Len(call.data) + 1)))
        /\ error_counts = pre.error_counts

C14_Witness ==
    /\ Wrote(IsWarningLine(call.data))
    /\ ~call.raised
    /\ call.data = <<"Skipping input", ":", " ", "A", "A">>
    /\ LastPrinted.text = <<"a", "A">>
    /\ error_counts = 0

\* C15: a write of an error line that returns prints one detail line, the
\* last line of the output so far; its number is the text between the first
\* and the second colon of the line and its description is all the text after
\* the second colon, further colons included, without the white space around
\* it; the file's output holds as many detail lines as error lines were
\* written for it, and error_counts is that number.
C15_ErrorDetail ==
    (Wrote(IsErrorLine(call.data)) /\ ~call.raised) =>
        /\ Len(printed) >= 1
        /\ Cardinality(Lines(printed, "detail")) = 1
        /\ LastPrinted.kind = "detail"
        /\ LastPrinted.head = Between(call.data, Place(call.data, ":", 1),
                                      Place(call.data, ":", 2))
        /\ LastPrinted.text = Trimmed(Between(call.data, Place(call.data, ":", 2),
                                              Len(call.data) + 1))
        /\ out[Len(out)].kind = "detail"
        /\ Cardinality(Lines(FileOut, "detail")) = fed_errors
        /\ Cardinality(Headers(FileOut, GLYPH_ERROR)) = 1
        /\ error_counts = fed_errors

C15_Witness ==
    /\ Wrote(IsErrorLine(call.data))
    /\ ~call.raised
    /\ call.data = <<":", "A", ":", ":">>
    /\ LastPrinted.head = <<"A">>
    /\ LastPrinted.text = <<":">>
    /\ error_counts = 2
    /\ Cardinality(Lines(FileOut, "detail")) = 2

\* C16: previous_file_has_error is true exactly when a header has been
\* printed and the last header printed is an error header; a call that prints
\* a header leaves it equal to "the glyph of that header is the error glyph".
C16_PreviousIsLastHeader ==
    /\ previous_file_has_error =
          (Glyphs(out) # <<>> /\ Glyphs(out)[Len(Glyphs(out))] = GLYPH_ERROR)
    /\ \A i \in Lines(printed, "header") :
          previous_file_has_error = (printed[i].glyph = GLYPH_ERROR)

C16_Witness ==
    /\ Glyphs(out) = <<GLYPH_ERROR, GLYPH_WARNING, GLYPH_ERROR>>
    /\ Headers(printed, GLYPH_ERROR) # {}
    /\ ~pre.previous_file_has_error
    /\ previous_file_has_error

\* C17: a write of the completion line of a file whose error_counts is above
\* zero prints nothing and leaves error_counts, total_error_counts,
\* processed_files and previous_file_has_error as they were.
C17_CompletionAfterErrors ==
    (Wrote(IsCompletionLine(call.data)) /\ pre.error_counts > 0) =>
        /\ printed = <<>>
        /\ ~call.raised
        /\ error_counts = pre.error_counts
        /\ total_error_counts = pre.total_error_counts
        /\ processed_files = pre.processed_files
        /\ previous_file_has_error = pre.previous_file_has_error

C17_Witness ==
    /\ Wrote(IsCompletionLine(call.data))
    /\ pre.error_counts = 2
    /\ total_error_counts > error_counts
    /\ ~previous_file_has_error
    /\ printed = <<>>
    /\ pc = "file_done"

\* C18: after PrepareForProcessingFile with a non-empty filename, and after
\* every write that returns, sys.stderr is the stream, so that the next line of
\* that file is intercepted too; while write handles a line sys.stderr is the
\* original channel.
C18_StderrIsStream ==
    /\ (call.op = "PrepareForProcessingFile" /\ filename # "") => sys_stderr = STREAM
    /\ (call.op = "write" /\ ~call.raised) => sys_stderr = STREAM
    /\ (pc = "processing" /\ filename # "") => sys_stderr = STREAM
    /\ call.op = "write" => (call.stderr = _SYS_STDERR /\ call.stderr # STREAM)

C18_Witness ==
    /\ Wrote(IsErrorLine(call.data))
    /\ ~call.raised
    /\ lines_fed = 2
    /\ pc = "processing"
    /\ pre.sys_stderr = STREAM
    /\ call.stderr = _SYS_STDERR
    /\ sys_stderr = STREAM

\* C19: the output never holds two blank lines in a row, and no call prints
\* more than one blank line: the blank line write prints before an error
\* header and the one PrintFilename prints never come together.
C19_NoTwoBlankLines ==
    /\ \A i \in 1..(Len(out) - 1) : ~(out[i].kind = "blank" /\ out[i + 1].kind = "blank")
    /\ Cardinality(Lines(printed, "blank")) <= 1

C19_Witness ==
    /\ Glyphs(out) = <<GLYPH_ERROR, GLYPH_ERROR, GLYPH_WARNING>>
    /\ \A i \in Headers(out, GLYPH_ERROR) \cup Headers(out, GLYPH_WARNING) : BlankBefore(i)
    /\ Cardinality(Lines(out, "blank")) = 3

\* C20: when a write of an error line raises, the line holds fewer than two
\* colons, error_counts and total_error_counts are each one above what they
\* were and no detail line is printed; if it was the file's first error the
\* error header is printed and processed_files is one above what it was, and
\* otherwise nothing is printed.
C20_MutatedBeforeFailure ==
    (Wrote(IsErrorLine(call.data)) /\ call.raised) =>
        /\ Colons(call.data) < 2
        /\ error_counts = pre.error_counts + 1
        /\ total_error_counts = pre.total_error_counts + 1
        /\ Lines(printed, "detail") = {}
        /\ pre.error_counts = 0 =>
              /\ Cardinality(Headers(printed, GLYPH_ERROR)) = 1
              /\ LastPrinted.kind = "header"
              /\ processed_files = pre.processed_files + 1
              /\ previous_file_has_error
        /\ pre.error_counts > 0 =>
              /\ printed = <<>>
              /\ processed_files = pre.processed_files

C20_Witness ==
    /\ Wrote(IsErrorLine(call.data))
    /\ call.raised
    /\ pre.error_counts = 0
    /\ pre.processed_files > 0
    /\ pre.total_error_counts > 0
    /\ Headers(printed, GLYPH_ERROR) # {}
    /\ processed_files = pre.processed_files + 1

====
